---------------------------- MODULE Spec2Model ----------------------------
(***************************************************************************)
(* EPUBBuilder (src/src/converter/epub_builder.py) with the two callers    *)
(* that put files into the scaffold directory: MarkdownConverter           *)
(* (src/src/converter/md2xhtml.py) and main (src/main.py).                 *)
(*                                                                         *)
(* A string the code inspects character by character (a file name, an      *)
(* href, an archive member name) is a sequence of one-character strings.   *)
(* A path is a sequence of such names, one per directory level.  The file  *)
(* system is a function from the paths of the existing files to their      *)
(* bytes.                                                                  *)
(***************************************************************************)
EXTENDS Naturals, Sequences, FiniteSets, TLC

VARIABLES
    items,      \* EPUBBuilder.items
    fs,         \* the files on disk
    pc,         \* main's position: "main" until create_epub has ended, then "exit"
    result,     \* how create_epub ended: the path returned or the exception raised
    added,      \* history: the arguments of the add_item calls, in call order
    fresh,      \* history: content.opf was generated after the last add_item
    name,       \* the argument of _sanitize_filename
    out,        \* what _sanitize_filename returned
    vitems,     \* the registry of the builder validate_epub is called on
    vres        \* what validate_epub returned

vars == <<items, fs, pc, result, added, fresh, name, out, vitems, vres>>

(***************************************************************************)
(* Bounds of the model.                                                    *)
(***************************************************************************)
MaxItems == 2
MaxHead == 2
MaxEntries == 4

(***************************************************************************)
(* Strings.                                                                *)
(***************************************************************************)
S_mimetype == <<"m", "i", "m", "e", "t", "y", "p", "e">>
S_META_INF == <<"M", "E", "T", "A", "-", "I", "N", "F">>
S_OEBPS == <<"O", "E", "B", "P", "S">>
S_container_xml == <<"c", "o", "n", "t", "a", "i", "n", "e", "r", ".", "x", "m", "l">>
S_content_opf == <<"c", "o", "n", "t", "e", "n", "t", ".", "o", "p", "f">>
S_epub == <<".", "e", "p", "u", "b">>
S_item_ == <<"i", "t", "e", "m", "_">>
SEP == "/"

UpperChars == <<"A", "B", "C", "D", "E", "F", "G", "H", "I", "J", "K", "L", "M",
                "N", "O", "P", "Q", "R", "S", "T", "U", "V", "W", "X", "Y", "Z">>
LowerChars == <<"a", "b", "c", "d", "e", "f", "g", "h", "i", "j", "k", "l", "m",
                "n", "o", "p", "q", "r", "s", "t", "u", "v", "w", "x", "y", "z">>
DigitChars == <<"0", "1", "2", "3", "4", "5", "6", "7", "8", "9">>

\* str.lower() on one character
LowerOf == [c \in {UpperChars[i] : i \in 1..Len(UpperChars)} |->
               LowerChars[CHOOSE i \in 1..Len(UpperChars) : UpperChars[i] = c]]

LowerChar(c) == IF c \in DOMAIN LowerOf THEN LowerOf[c] ELSE c

\* str.lower()
RECURSIVE Lower(_)
Lower(s) == IF s = <<>> THEN <<>> ELSE <<LowerChar(Head(s))>> \o Lower(Tail(s))

\* str.endswith(suffix)
EndsWith(s, suffix) ==
    /\ Len(s) >= Len(suffix)
    /\ SubSeq(s, Len(s) - Len(suffix) + 1, Len(s)) = suffix

\* str.replace(char, by) for a one-character pattern
RECURSIVE Replace(_, _, _)
Replace(s, char, by) ==
    IF s = <<>> THEN <<>>
    ELSE <<IF Head(s) = char THEN by ELSE Head(s)>> \o Replace(Tail(s), char, by)

\* str(n) for n >= 0
RECURSIVE Str(_)
Str(n) == IF n < 10 THEN <<DigitChars[n + 1]>>
          ELSE Str(n \div 10) \o <<DigitChars[(n % 10) + 1]>>

\* the components of a relative path string, as the file system resolves it
RECURSIVE SplitPath(_)
SplitPath(s) ==
    IF \E i \in 1..Len(s) : s[i] = SEP
    THEN LET i == CHOOSE k \in 1..Len(s) : s[k] = SEP /\ \A j \in 1..(k - 1) : s[j] # SEP
         IN  <<SubSeq(s, 1, i - 1)>> \o SplitPath(SubSeq(s, i + 1, Len(s)))
    ELSE <<s>>

\* os.path.join / os.path.relpath of the components of a relative path
RECURSIVE JoinPath(_)
JoinPath(p) ==
    IF Len(p) = 0 THEN <<>>
    ELSE IF Len(p) = 1 THEN p[1]
    ELSE p[1] \o <<SEP>> \o JoinPath(Tail(p))


(***************************************************************************)
(* File contents.  Bytes are kept as what they encode: a text, a text that *)
(* is a package document (doc holds it), or a ZIP file (entries holds its  *)
(* members), with a flag for whether the bytes decode as UTF-8.            *)
(***************************************************************************)
MIMETYPE_TEXT == "application/epub+zip"
CONTAINER_XML_TEXT == "container.xml -> OEBPS/content.opf"
XHTML_TEXT == "xhtml document"
OTHER_TEXT == "other text"
ZIP_STORED == "ZIP_STORED"
ZIP_DEFLATED == "ZIP_DEFLATED"

OPF_TEXT == "package document"
ZIP_TEXT == "PK"

\* open(path, 'w', encoding='utf-8').write(text)
Encode(text) == [utf8 |-> TRUE, zip |-> FALSE, text |-> text, doc |-> <<>>, entries |-> <<>>]

\* the same, for the package document
EncodeOpf(opf) ==
    [utf8 |-> TRUE, zip |-> FALSE, text |-> OPF_TEXT, doc |-> <<opf>>, entries |-> <<>>]

\* the bytes of a ZIP file with the given members
ZipData(entries) ==
    [utf8 |-> FALSE, zip |-> TRUE, text |-> ZIP_TEXT, doc |-> <<>>, entries |-> entries]

EmptyFs == [p \in {} |-> Encode(OTHER_TEXT)]

WriteFile(f, path, data) == (path :> data) @@ f

RemoveFile(f, path) == [q \in (DOMAIN f) \ {path} |-> f[q]]

IsPrefix(p, q) == Len(p) <= Len(q) /\ SubSeq(q, 1, Len(p)) = p

\* os.path.exists: a file, or a directory that holds one
Exists(f, path) == \E q \in DOMAIN f : IsPrefix(path, q)

\* the files of the tree under dir
Under(f, dir) == {q \in DOMAIN f : IsPrefix(dir, q) /\ Len(q) > Len(dir)}

(***************************************************************************)
(* The builder's fixed identity and the inputs the model draws from.       *)
(***************************************************************************)
BookTitle == <<"t", ":">>
BookAuthor == "author"
BookUuid == "uuid4"

TempDir == << <<"t", "m", "p">> >>
OutDir == << <<"o", "u", "t">> >>
OutputDirs == {OutDir, TempDir}

H_a == <<"a">>
H_sub_b == <<"s", "/", "b">>
H_sub_mimetype == <<"s", "/">> \o S_mimetype
Hrefs == {H_a, H_sub_b, H_sub_mimetype}
DefaultMediaType == "application/xhtml+xml"
\* the add_item calls of the model: add_item(href) and add_item(href, 'text/plain')
ItemArgs == {<<H_a, DefaultMediaType>>, <<H_sub_b, DefaultMediaType>>,
             <<H_sub_mimetype, "text/plain">>}

\* Optional[str]: <<>> is None, <<s>> is the string s
None == <<>>
EpubNames == {None, << <<"t", "*">> >>}

OebpsPath(dir, href) == dir \o <<S_OEBPS>> \o SplitPath(href)
ConvertTargets == {OebpsPath(TempDir, h) : h \in Hrefs} \cup {TempDir \o <<S_mimetype>>}

NoMsg == [code |-> "none", arg |-> <<>>]
\* target is history: the epub_path of the call
NoCall == [st |-> "none", exc |-> "none", msg |-> NoMsg, path |-> <<>>, target |-> <<>>]

(***************************************************************************)
(* EPUBBuilder.add_item                                                    *)
(***************************************************************************)
ItemId(n) == S_item_ \o Str(n)

\* mutant: the id is numbered from the length before the append
NewItemFromZero(its, href, media_type) ==
    [id |-> ItemId(Len(its)), href |-> href, media_type |-> media_type]

NewItem(its, href, media_type) ==
    [id |-> ItemId(Len(its) + 1), href |-> href, media_type |-> media_type]

AddItem(href, media_type) ==
    /\ pc = "main"
    /\ Len(items) < MaxItems
    /\ items' = Append(items, NewItem(items, href, media_type))
    /\ added' = Append(added, <<href, media_type>>)
    /\ fresh' = FALSE
    /\ UNCHANGED <<fs, pc, result, name, out, vitems, vres>>

(***************************************************************************)
(* EPUBBuilder.create_epub_structure                                       *)
(***************************************************************************)
CreateMimetype(f, output_dir) ==
    WriteFile(f, output_dir \o <<S_mimetype>>, Encode(MIMETYPE_TEXT))

CreateContainerXml(f, meta_inf_dir) ==
    WriteFile(f, meta_inf_dir \o <<S_container_xml>>, Encode(CONTAINER_XML_TEXT))

CreateEpubStructure ==
    /\ pc = "main"
    /\ fs' = CreateContainerXml(CreateMimetype(fs, TempDir), TempDir \o <<S_META_INF>>)
    /\ UNCHANGED <<items, pc, fresh, result, added, name, out, vitems, vres>>

(***************************************************************************)
(* EPUBBuilder.generate_content_opf                                        *)
(***************************************************************************)
GenerateManifestItems(its) ==
    [k \in 1..Len(its) |->
        [tag |-> "item", id |-> its[k].id, href |-> its[k].href,
         media_type |-> its[k].media_type]]

GenerateSpineItems(its) ==
    [k \in 1..Len(its) |-> [tag |-> "itemref", idref |-> its[k].id]]

ContentOpf(its, time) ==
    [identifier |-> BookUuid, title |-> BookTitle, creator |-> BookAuthor,
     language |-> "zh-CN", modified |-> time,
     manifest |-> GenerateManifestItems(its), spine |-> GenerateSpineItems(its)]

\* what datetime.utcnow().strftime('%Y-%m-%dT%H:%M:%SZ') may return at two calls
ClockReadings == {"2026-01-01T00:00:00Z", "2026-01-01T00:00:01Z"}

OpfPath(dir) == dir \o <<S_OEBPS, S_content_opf>>

GenerateContentOpf ==
    \E t \in ClockReadings :
        /\ pc = "main"
        /\ fs' = WriteFile(fs, OpfPath(TempDir), EncodeOpf(ContentOpf(items, t)))
        /\ fresh' = TRUE
        /\ UNCHANGED <<items, pc, result, added, name, out, vitems, vres>>

(***************************************************************************)
(* MarkdownConverter.convert_file                                          *)
(***************************************************************************)
ConvertFile(output_file) ==
    /\ pc = "main"
    /\ fs' = WriteFile(fs, output_file, Encode(XHTML_TEXT))
    /\ UNCHANGED <<items, pc, fresh, result, added, name, out, vitems, vres>>

(***************************************************************************)
(* EPUBBuilder._sanitize_filename                                          *)
(***************************************************************************)
IllegalChars == <<"<", ">", ":", "\"", "/", "\\", "|", "?", "*">>

\* for char in illegal_chars: filename = filename.replace(char, '_')
RECURSIVE ReplaceAll(_, _)
ReplaceAll(filename, chars) ==
    IF chars = <<>> THEN filename
    ELSE ReplaceAll(Replace(filename, Head(chars), "_"), Tail(chars))

ReplaceIllegal(filename) == ReplaceAll(filename, IllegalChars)

\* mutant: the extension is compared case-sensitively
HasEpubExtensionExact(filename) == EndsWith(filename, S_epub)

HasEpubExtension(filename) == EndsWith(Lower(filename), S_epub)

SanitizeFilename(filename) ==
    LET replaced == ReplaceIllegal(filename)
    IN  IF ~HasEpubExtension(replaced) THEN replaced \o S_epub ELSE replaced

(***************************************************************************)
(* EPUBBuilder.validate_epub                                               *)
(***************************************************************************)
Msg(code, arg) == [code |-> code, arg |-> arg]
Verdict(ok, msg) == [ok |-> ok, msg |-> msg]

RequiredFiles == <<S_mimetype,
                   S_META_INF \o <<SEP>> \o S_container_xml,
                   S_OEBPS \o <<SEP>> \o S_content_opf>>

\* ZipFile.getinfo: the member a name maps to is the last one written under it
HasMember(entries, filename) == \E i \in 1..Len(entries) : entries[i].filename = filename

GetInfo(entries, filename) ==
    entries[CHOOSE i \in 1..Len(entries) :
                /\ entries[i].filename = filename
                /\ \A j \in (i + 1)..Len(entries) : entries[j].filename # filename]

\* ZipFile.testzip: the first member whose CRC does not match, if any
BadMembers(entries) == {i \in 1..Len(entries) : ~entries[i].crc_ok}

TestZip(entries) ==
    entries[CHOOSE i \in BadMembers(entries) : \A j \in BadMembers(entries) : i <= j].filename

MissingRequired(entries) ==
    {k \in 1..Len(RequiredFiles) : ~HasMember(entries, RequiredFiles[k])}

\* mutant: the marker's content is not compared
MimetypeContentUnchecked(entries) == TRUE

MimetypeContentOk(entries) == GetInfo(entries, S_mimetype).data.text = MIMETYPE_TEXT

\* mutant: the marker's compression is not looked at
MimetypeFirstOnly(entries) == entries[1].filename = S_mimetype

MimetypeFirstStored(entries) ==
    /\ entries[1].filename = S_mimetype
    /\ entries[1].compress_type = ZIP_STORED

\* os.path.join('OEBPS', item['href']).replace('\\', '/')
ItemArcname(href) == Replace(S_OEBPS \o <<SEP>> \o href, "\\", SEP)

\* mutant: the registered items are not looked up in the archive
NoItemChecked(entries, its) == {}

MissingItems(entries, its) ==
    {k \in 1..Len(its) : ~HasMember(entries, ItemArcname(its[k].href))}

ValidateMembers(entries, its) ==
    IF BadMembers(entries) # {}
    THEN Verdict(FALSE, Msg("zip_corrupt", TestZip(entries)))
    ELSE IF MissingRequired(entries) # {}
    THEN Verdict(FALSE, Msg("missing_required",
            RequiredFiles[CHOOSE k \in MissingRequired(entries) :
                              \A j \in MissingRequired(entries) : k <= j]))
    ELSE IF ~GetInfo(entries, S_mimetype).data.utf8
    THEN Verdict(FALSE, Msg("exception", <<>>))
    ELSE IF ~MimetypeContentOk(entries)
    THEN Verdict(FALSE, Msg("mimetype_content", <<>>))
    ELSE IF ~MimetypeFirstStored(entries)
    THEN Verdict(FALSE, Msg("mimetype_not_first_stored", <<>>))
    ELSE IF ~GetInfo(entries, RequiredFiles[3]).data.utf8
    THEN Verdict(FALSE, Msg("exception", <<>>))
    ELSE IF MissingItems(entries, its) # {}
    THEN Verdict(FALSE, Msg("item_not_found",
            ItemArcname(its[CHOOSE k \in MissingItems(entries, its) :
                                \A j \in MissingItems(entries, its) : k <= j].href)))
    ELSE Verdict(TRUE, Msg("ok", <<>>))

ValidateEpub(f, epub_path, its) ==
    IF epub_path \notin DOMAIN f THEN Verdict(FALSE, Msg("exception", <<>>))
    ELSE IF ~f[epub_path].zip THEN Verdict(FALSE, Msg("bad_zip", <<>>))
    ELSE ValidateMembers(f[epub_path].entries, its)

(***************************************************************************)
(* EPUBBuilder.create_epub                                                 *)
(***************************************************************************)
\* the order in which a directory lists a set of names: one order or its reverse
RECURSIVE SetToSeq(_)
SetToSeq(S) ==
    IF S = {} THEN <<>>
    ELSE LET x == CHOOSE y \in S : TRUE IN <<x>> \o SetToSeq(S \ {x})

RECURSIVE Reverse(_)
Reverse(s) == IF s = <<>> THEN <<>> ELSE Reverse(Tail(s)) \o <<Head(s)>>

Listing(S, rev) == IF rev THEN Reverse(SetToSeq(S)) ELSE SetToSeq(S)

FilesIn(f, dir) == {q \in DOMAIN f : IsPrefix(dir, q) /\ Len(q) = Len(dir) + 1}

SubDirs(f, dir) ==
    {SubSeq(q, 1, Len(dir) + 1) : q \in {r \in DOMAIN f : IsPrefix(dir, r) /\ Len(r) > Len(dir) + 1}}

\* os.walk(temp_dir), top down: the paths of the files, in the order visited
RECURSIVE Walk(_, _, _), WalkDirs(_, _, _)
Walk(f, dir, rev) ==
    Listing(FilesIn(f, dir), rev) \o WalkDirs(f, Listing(SubDirs(f, dir), rev), rev)

WalkDirs(f, dirs, rev) ==
    IF dirs = <<>> THEN <<>>
    ELSE Walk(f, Head(dirs), rev) \o WalkDirs(f, Tail(dirs), rev)

\* if file == 'mimetype' or file == epub_name: continue
Skipped(file, epub_name) == file = S_mimetype \/ file = epub_name

\* os.path.relpath(file_path, temp_dir), as ZipFile.write stores it
Arcname(file_path, temp_dir) == JoinPath(SubSeq(file_path, Len(temp_dir) + 1, Len(file_path)))

\* ZipFile.write(filename, arcname, compress_type)
Member(f, file_path, arcname, compress_type) ==
    [filename |-> arcname, compress_type |-> compress_type, data |-> f[file_path],
     crc_ok |-> TRUE]

MimetypeMember(f, temp_dir) ==
    Member(f, temp_dir \o <<S_mimetype>>, S_mimetype, ZIP_STORED)

WalkMembers(f, temp_dir, epub_name, rev) ==
    LET kept == SelectSeq(Walk(f, temp_dir, rev),
                          LAMBDA q : ~Skipped(q[Len(q)], epub_name))
    IN  [i \in 1..Len(kept) |-> Member(f, kept[i], Arcname(kept[i], temp_dir), ZIP_DEFLATED)]

\* epub_name after lines 154-158, and epub_path
FinalName(epub_name) ==
    SanitizeFilename(IF epub_name = None THEN BookTitle \o S_epub ELSE epub_name[1])

EpubPath(output_dir, epub_name) == output_dir \o <<FinalName(epub_name)>>

\* mutant: the files of the registered items are not looked for
NoFileChecked(f, temp_dir, its) == {}

\* the registered items whose file does not exist under the content root
MissingFiles(f, temp_dir, its) ==
    {k \in 1..Len(its) : ~Exists(f, OebpsPath(temp_dir, its[k].href))}

FirstMissing(f, temp_dir, its) ==
    its[CHOOSE k \in MissingFiles(f, temp_dir, its) :
            \A j \in MissingFiles(f, temp_dir, its) : k <= j].href

\* mutant: a rejected archive is left where it is
KeepRejected(f, epub_path, verdict) == f

\* mutant: a rejected archive is removed, and the scaffold with it
RejectedCleansScaffold(f, epub_path, verdict) ==
    IF ~verdict.ok
    THEN [q \in (DOMAIN f) \ (Under(f, TempDir) \cup {epub_path}) |-> f[q]]
    ELSE f

\* lines 179-182: a rejected archive is removed
AfterValidation(f, epub_path, verdict) ==
    IF ~verdict.ok THEN RemoveFile(f, epub_path) ELSE f

Raised(exc, msg, target) ==
    [st |-> "raised", exc |-> exc, msg |-> msg, path |-> <<>>, target |-> target]

Returned(epub_path) ==
    [st |-> "returned", exc |-> "none", msg |-> NoMsg, path |-> epub_path,
     target |-> epub_path]

CreateEpub(temp_dir, output_dir, epub_name, rev) ==
    /\ pc = "main"
    /\ pc' = "exit"
    /\ UNCHANGED <<items, fresh, added, name, out, vitems, vres>>
    /\ \E final_name \in {FinalName(epub_name)} :
       \E epub_path \in {output_dir \o <<final_name>>} :
          IF MissingFiles(fs, temp_dir, items) # {}
          THEN \* line 152: raise before anything is opened
               /\ fs' = fs
               /\ result' = Raised("ValueError",
                                   Msg("missing_file", FirstMissing(fs, temp_dir, items)),
                                   epub_path)
          ELSE \* line 162: mode 'w' creates the file, or truncates the one there
               \E opened \in {WriteFile(fs, epub_path, ZipData(<<>>))} :
                  IF (temp_dir \o <<S_mimetype>>) \notin DOMAIN opened
                  THEN \* line 165 raises; the with block closes the archive as it is
                       /\ fs' = opened
                       /\ result' = Raised("FileNotFoundError", Msg("mimetype", <<>>),
                                           epub_path)
                  ELSE \E written \in
                            {WriteFile(opened, epub_path,
                                ZipData(<<MimetypeMember(opened, temp_dir)>>
                                        \o WalkMembers(opened, temp_dir, final_name, rev)))} :
                       \E verdict \in {ValidateEpub(written, epub_path, items)} :
                          /\ fs' = AfterValidation(written, epub_path, verdict)
                          /\ result' = IF ~verdict.ok
                                       THEN Raised("ValueError",
                                                   Msg("validation", verdict.msg),
                                                   epub_path)
                                       ELSE Returned(epub_path)

\* what an earlier run of main may have left in the output directory, which
\* main keeps from run to run (os.makedirs(output_dir, exist_ok=True))
OldFiles == {ZipData(<<Member(CreateMimetype(EmptyFs, TempDir), TempDir \o <<S_mimetype>>,
                              S_mimetype, ZIP_STORED)>>)}

(***************************************************************************)
(* The builder with its callers.                                           *)
(***************************************************************************)
Init ==
    /\ items = <<>>
    /\ added = <<>>
    /\ fs \in {EmptyFs} \cup {WriteFile(EmptyFs, EpubPath(OutDir, None), d) : d \in OldFiles}
    /\ pc = "main"
    /\ fresh = FALSE
    /\ result = NoCall
    /\ name = <<>>
    /\ out = None
    /\ vitems = <<>>
    /\ vres = None

Next ==
    \/ \E args \in ItemArgs : AddItem(args[1], args[2])
    \/ CreateEpubStructure
    \/ GenerateContentOpf
    \/ \E output_file \in ConvertTargets : ConvertFile(output_file)
    \/ \E output_dir \in OutputDirs, epub_name \in EpubNames, rev \in BOOLEAN :
           CreateEpub(TempDir, output_dir, epub_name, rev)

Spec == Init /\ [][Next]_vars

(***************************************************************************)
(* _sanitize_filename on its own, over a bounded set of names.             *)
(***************************************************************************)
HeadChars == {IllegalChars[i] : i \in 1..Len(IllegalChars)} \cup {"a", "_", "."}

RECURSIVE SeqsUpTo(_, _)
SeqsUpTo(S, n) ==
    IF n = 0 THEN {<<>>}
    ELSE LET shorter == SeqsUpTo(S, n - 1)
         IN  shorter \cup {Append(h, c) : h \in shorter, c \in S}

Tails == {<<>>, S_epub, <<".", "E", "P", "U", "B">>, <<".", "e", "P", "u", "B">>,
          <<".", "e", "p", "u">>, <<"e", "p", "u", "b">>, <<".", "e", "p", "u", "b", ".">>,
          <<".", "e", "p", "u", "b", "?">>, <<".", "p", "d", "f">>}

ExampleName == <<"M", "y", ":", "B", "o", "o", "k", "*", "T", "i", "t", "l", "e">>

Names == {h \o t : h \in SeqsUpTo(HeadChars, MaxHead), t \in Tails} \cup {ExampleName}

InitSanitize ==
    /\ name \in Names
    /\ out = None
    /\ items = <<>> /\ added = <<>> /\ fs = EmptyFs /\ pc = "exit" /\ fresh = FALSE
    /\ result = NoCall /\ vitems = <<>> /\ vres = None

Sanitize ==
    /\ out = None
    /\ out' = <<SanitizeFilename(name)>>
    /\ UNCHANGED <<items, fs, pc, result, added, fresh, name, vitems, vres>>

NextSanitize == Sanitize

SpecSanitize == InitSanitize /\ [][NextSanitize]_vars

(***************************************************************************)
(* validate_epub on its own, over a bounded set of files.                  *)
(***************************************************************************)
BINARY == [Encode(OTHER_TEXT) EXCEPT !.utf8 = FALSE]

VMember(filename, compress_type, data, crc_ok) ==
    [filename |-> filename, compress_type |-> compress_type, data |-> data, crc_ok |-> crc_ok]

VMembers ==
    {VMember(S_mimetype, ZIP_STORED, Encode(MIMETYPE_TEXT), TRUE),
     VMember(S_mimetype, ZIP_DEFLATED, Encode(MIMETYPE_TEXT), TRUE),
     VMember(S_mimetype, ZIP_STORED, Encode(OTHER_TEXT), TRUE),
     VMember(S_mimetype, ZIP_STORED, BINARY, TRUE),
     VMember(S_mimetype, ZIP_STORED, Encode(MIMETYPE_TEXT), FALSE),
     VMember(RequiredFiles[2], ZIP_DEFLATED, Encode(CONTAINER_XML_TEXT), TRUE),
     VMember(RequiredFiles[3], ZIP_DEFLATED, EncodeOpf(ContentOpf(<<>>, "2026-01-01T00:00:00Z")), TRUE),
     VMember(RequiredFiles[3], ZIP_DEFLATED, BINARY, TRUE),
     VMember(ItemArcname(H_a), ZIP_DEFLATED, Encode(XHTML_TEXT), TRUE),
     VMember(ItemArcname(H_a), ZIP_DEFLATED, Encode(XHTML_TEXT), FALSE)}

VPath == EpubPath(OutDir, None)

VFiles == {ZipData(es) : es \in SeqsUpTo(VMembers, MaxEntries)} \cup {Encode(XHTML_TEXT)}

\* the registries add_item builds from the hrefs of VRegistries
RECURSIVE Registry(_)
Registry(args) ==
    IF args = <<>> THEN <<>>
    ELSE LET its == Registry(SubSeq(args, 1, Len(args) - 1))
         IN  Append(its, NewItem(its, args[Len(args)][1], args[Len(args)][2]))

VRegistries == {Registry(<<>>), Registry(<<<<H_a, DefaultMediaType>>>>)}

InitValidate ==
    /\ fs \in {EmptyFs} \cup {WriteFile(EmptyFs, VPath, d) : d \in VFiles}
    /\ vitems \in VRegistries
    /\ vres = None
    /\ items = <<>> /\ added = <<>> /\ pc = "exit" /\ fresh = FALSE
    /\ result = NoCall /\ name = <<>> /\ out = None

Validate ==
    /\ vres = None
    /\ vres' = <<ValidateEpub(fs, VPath, vitems)>>
    /\ UNCHANGED <<items, fs, pc, result, added, fresh, name, out, vitems>>

NextValidate == Validate

SpecValidate == InitValidate /\ [][NextValidate]_vars

(***************************************************************************)
(* Properties.                                                             *)
(***************************************************************************)
\* a step of create_epub
CreateStep == pc = "main" /\ pc' = "exit"

\* the members of the archive create_epub returned
ReturnedEntries == fs[result.path].entries

\* the name an item's file has in the archive
ContentName(href) == S_OEBPS \o <<SEP>> \o href

\* the k-th registered item has no file under the content root
FileMissing(f, k) == (TempDir \o <<S_OEBPS>> \o SplitPath(items[k].href)) \notin DOMAIN f

\* the scaffold is as create_epub_structure and generate_content_opf leave it
ScaffoldReady(f) ==
    /\ (TempDir \o <<S_mimetype>>) \in DOMAIN f
    /\ f[TempDir \o <<S_mimetype>>] = Encode(MIMETYPE_TEXT)
    /\ (TempDir \o <<S_META_INF, S_container_xml>>) \in DOMAIN f
    /\ f[TempDir \o <<S_META_INF, S_container_xml>>] = Encode(CONTAINER_XML_TEXT)
    /\ OpfPath(TempDir) \in DOMAIN f

\* C1: when create_epub returns a path for a non-empty registry, the archive at
\* that path has 'mimetype' as its first member, stored uncompressed, with the
\* content 'application/epub+zip' exactly.
C1_MarkerFirstStoredExact ==
    (result.st = "returned" /\ Len(items) >= 1) =>
        /\ result.path \in DOMAIN fs
        /\ fs[result.path].zip
        /\ Len(ReturnedEntries) >= 1
        /\ ReturnedEntries[1].filename = S_mimetype
        /\ ReturnedEntries[1].compress_type = ZIP_STORED
        /\ ReturnedEntries[1].data = Encode(MIMETYPE_TEXT)

C1_Witness == result.st = "returned" /\ Len(items) >= 1

\* C2: when create_epub returns a path, every registered href has exactly one
\* member of the archive, named 'OEBPS/<href>'.
C2_EveryHrefOnce ==
    result.st = "returned" =>
        \A k \in 1..Len(items) :
            Cardinality({i \in 1..Len(ReturnedEntries) :
                            ReturnedEntries[i].filename = ContentName(items[k].href)}) = 1

C2_Witness ==
    /\ result.st = "returned"
    /\ Len(items) = 2
    /\ items[1].href # items[2].href

\* C3: if the scaffold is as create_epub_structure and generate_content_opf leave
\* it and every registered item's file exists under OEBPS when create_epub is
\* called, then create_epub returns a path ending in '.epub' that validate_epub
\* accepts.
C3_ReadyScaffoldPacks ==
    [][(CreateStep /\ ScaffoldReady(fs) /\ \A k \in 1..Len(items) : ~FileMissing(fs, k)) =>
           /\ result'.st = "returned"
           /\ EndsWith(result'.path[Len(result'.path)], S_epub)
           /\ ValidateEpub(fs', result'.path, items).ok]_vars

\* C4 as claimed: if a registered item's file is missing when create_epub is
\* called, create_epub raises the missing-file error naming a missing href, and
\* no file is at the output path afterwards.
C4_MissingLeavesNoFile ==
    [][(CreateStep /\ \E k \in 1..Len(items) : FileMissing(fs, k)) =>
           /\ result'.st = "raised"
           /\ result'.exc = "ValueError"
           /\ result'.msg.code = "missing_file"
           /\ \E k \in 1..Len(items) : FileMissing(fs, k) /\ result'.msg.arg = items[k].href
           /\ result'.target \notin DOMAIN fs']_vars

\* C4 as amended: if a registered item's file is missing when create_epub is
\* called, create_epub raises the missing-file error naming a missing href, and
\* every file, the one at the output path included, is as it was before the call.
C4_MissingLeavesDiskAsItWas ==
    [][(CreateStep /\ \E k \in 1..Len(items) : FileMissing(fs, k)) =>
           /\ result'.st = "raised"
           /\ result'.exc = "ValueError"
           /\ result'.msg.code = "missing_file"
           /\ \E k \in 1..Len(items) : FileMissing(fs, k) /\ result'.msg.arg = items[k].href
           /\ fs' = fs]_vars

C4_Witness ==
    /\ pc = "exit"
    /\ result.msg.code = "missing_file"
    /\ result.target \in DOMAIN fs

\* C5: when validate_epub rejects the archive create_epub has written,
\* create_epub raises an error that carries the validator's message and no file
\* is at the output path afterwards; a path create_epub returns is that of an
\* archive validate_epub accepts.
C5_RejectedArchiveRemoved ==
    /\ (result.st = "raised" /\ result.msg.code = "validation") =>
          /\ result.exc = "ValueError"
          /\ result.target \notin DOMAIN fs
          /\ result.msg.arg.code \in {"missing_required", "mimetype_content", "item_not_found"}
          /\ result.msg.arg.code = "missing_required" =>
                (TempDir \o SplitPath(result.msg.arg.arg)) \notin DOMAIN fs
          /\ result.msg.arg.code = "mimetype_content" =>
                fs[TempDir \o <<S_mimetype>>] # Encode(MIMETYPE_TEXT)
          /\ result.msg.arg.code = "item_not_found" =>
                \E k \in 1..Len(items) : result.msg.arg.arg = ContentName(items[k].href)
    /\ result.st = "returned" =>
          /\ result.path = result.target
          /\ ValidateEpub(fs, result.path, items).ok

C5_Witness ==
    /\ result.st = "raised"
    /\ result.msg.code = "validation"
    /\ result.msg.arg.code = "mimetype_content"

\* C6: no archive written by a create_epub call that fails is at the output path
\* afterwards: the path holds no file, or the file it held before the call.
C6_NoArchiveAfterFailure ==
    [][(CreateStep /\ result'.st = "raised") =>
           \/ result'.target \notin DOMAIN fs'
           \/ /\ result'.target \in DOMAIN fs
              /\ fs'[result'.target] = fs[result'.target]]_vars

ScaffoldFiles(f) == [q \in Under(f, TempDir) |-> f[q]]

\* C10 as claimed: create_epub leaves the files under the scaffold directory and
\* their contents as they were, for every output directory and archive name
\* (stated for the calls that return or raise ValueError; the exit on which the
\* marker file cannot be read is the one of C6).
C10_ScaffoldUntouched ==
    [][(CreateStep /\ result'.exc # "FileNotFoundError") =>
           ScaffoldFiles(fs') = ScaffoldFiles(fs)]_vars

\* C10 as amended: create_epub leaves every file under the scaffold directory
\* other than the one at the output path as it was; so the scaffold is untouched
\* when the output path is outside it.
C10_ScaffoldUntouchedButOutput ==
    [][CreateStep =>
           /\ Under(fs', TempDir) \ {result'.target} = Under(fs, TempDir) \ {result'.target}
           /\ \A q \in Under(fs, TempDir) \ {result'.target} : fs'[q] = fs[q]
           /\ ~IsPrefix(TempDir, result'.target) => ScaffoldFiles(fs') = ScaffoldFiles(fs)]_vars

C10_Witness ==
    /\ result.st = "returned"
    /\ IsPrefix(TempDir, result.path)
    /\ result.path \in DOMAIN fs

\* C8: after n add_item calls the registry holds n entries in call order, the
\* k-th with id 'item_k', href and media type those of the k-th call; the ids
\* are distinct; and a descriptor generated from the registry lists those n
\* entries in the manifest and those n ids in the spine, in that order.
C8_RegistryOrderInDescriptor ==
    /\ Len(items) = Len(added)
    /\ \A k \in 1..Len(items) :
          items[k] = [id |-> S_item_ \o Str(k), href |-> added[k][1],
                      media_type |-> added[k][2]]
    /\ \A j, k \in 1..Len(items) : items[j].id = items[k].id => j = k
    /\ fresh =>
          /\ OpfPath(TempDir) \in DOMAIN fs
          /\ LET opf == fs[OpfPath(TempDir)].doc[1]
             IN  /\ Len(opf.manifest) = Len(added)
                 /\ Len(opf.spine) = Len(added)
                 /\ \A k \in 1..Len(added) :
                       /\ opf.manifest[k] =
                             [tag |-> "item", id |-> S_item_ \o Str(k),
                              href |-> added[k][1], media_type |-> added[k][2]]
                       /\ opf.spine[k] = [tag |-> "itemref", idref |-> S_item_ \o Str(k)]

C8_Witness ==
    /\ fresh
    /\ Len(items) = 2
    /\ items[1].href # items[2].href
    /\ items[1].media_type # items[2].media_type

\* C7: _sanitize_filename returns the name with each of < > : " / \ | ? *
\* replaced by an underscore and every other character unchanged, followed by
\* '.epub' exactly when the replaced name does not end in '.epub' compared
\* case-insensitively; 'My:Book*Title' gives 'My_Book_Title.epub'; the result
\* holds none of the nine characters.
NineChars == {"<", ">", ":", "\"", "/", "\\", "|", "?", "*"}

EndsInEpubAnyCase(s) ==
    /\ Len(s) >= 5
    /\ \A k \in 1..5 : LowerChar(s[Len(s) - 5 + k]) = S_epub[k]

C7_SanitizedName ==
    out # None =>
        LET r == out[1]
            n == Len(name)
        IN  /\ Len(r) \in {n, n + 5}
            /\ \A i \in 1..n : r[i] = IF name[i] \in NineChars THEN "_" ELSE name[i]
            /\ Len(r) = n + 5 => SubSeq(r, n + 1, n + 5) = S_epub
            /\ Len(r) = n + 5 <=> ~EndsInEpubAnyCase(SubSeq(r, 1, n))
            /\ \A i \in 1..Len(r) : r[i] \notin NineChars
            /\ name = ExampleName =>
                  r = <<"M", "y", "_", "B", "o", "o", "k", "_", "T", "i", "t", "l", "e",
                        ".", "e", "p", "u", "b">>

\* a name with one of the nine characters that ends in the extension in another case
C7_Witness ==
    /\ out # None
    /\ \E i \in 1..Len(name) : name[i] \in NineChars
    /\ Len(out[1]) = Len(name)
    /\ ~EndsWith(name, S_epub)

\* C9: the five checks of validate_epub, each as a condition on the archive
ValidatedEntries == fs[VPath].entries

Violated(k) ==
    CASE k = 1 -> \E i \in 1..Len(ValidatedEntries) : ~ValidatedEntries[i].crc_ok
      [] k = 2 -> \E r \in 1..Len(RequiredFiles) :
                      ~HasMember(ValidatedEntries, RequiredFiles[r])
      [] k = 3 -> \/ ~HasMember(ValidatedEntries, S_mimetype)
                  \/ GetInfo(ValidatedEntries, S_mimetype).data # Encode(MIMETYPE_TEXT)
      [] k = 4 -> \/ ValidatedEntries = <<>>
                  \/ ValidatedEntries[1].filename # S_mimetype
                  \/ ValidatedEntries[1].compress_type # ZIP_STORED
      [] k = 5 -> \E j \in 1..Len(vitems) :
                      ~HasMember(ValidatedEntries, ContentName(vitems[j].href))

CheckMessage ==
    <<"zip_corrupt", "missing_required", "mimetype_content", "mimetype_not_first_stored",
      "item_not_found">>

FirstViolated == CHOOSE k \in 1..5 : Violated(k) /\ \A j \in 1..(k - 1) : ~Violated(j)

\* the marker and the package document, where the archive has them, are UTF-8
MarkerAndOpfDecode ==
    \A i \in 1..Len(ValidatedEntries) :
        ValidatedEntries[i].filename \in {S_mimetype, RequiredFiles[3]} =>
            ValidatedEntries[i].data.utf8

Validated == vres # None /\ VPath \in DOMAIN fs /\ fs[VPath].zip

=============================================================================
